---- MODULE Spec2Model ----
(***************************************************************************)
(* A model of apollo-link-contentful: the ContentfulRestLink request       *)
(* orchestration (src/unnamed/part_000, lines 14-112) and the query-AST    *)
(* to REST-parameter translation helpers (same file, lines 133-534).       *)
(*                                                                         *)
(* JavaScript strings are modelled as sequences of one-character strings,  *)
(* so that endsWith / startsWith / includes / replace act on characters    *)
(* exactly as String.prototype does.  JavaScript values are tagged records *)
(* (JsStr, JsBool, JsList, JsUndef); objects used as string-keyed maps are *)
(* functions whose domain is a set of character sequences.                 *)
(***************************************************************************)
EXTENDS Integers, Sequences, FiniteSets, TLC

\* ------------------------------------------------------------------------
\* Bounds of the model (not program constants)
\* ------------------------------------------------------------------------
\* the largest number of results the upstream `forward` observable emits
MaxEmits == 2
\* the largest number of words in a name given to getSearchKey and
\* getOrderValue
MaxParts == 2

\* ------------------------------------------------------------------------
\* String literals of the source, as character sequences
\* ------------------------------------------------------------------------
w_id == <<"i","d">>
w_preview == <<"p","r","e","v","i","e","w">>
w_order == <<"o","r","d","e","r">>
w_limit == <<"l","i","m","i","t">>
w_include == <<"i","n","c","l","u","d","e">>
w_locale == <<"l","o","c","a","l","e">>
w_content_type == <<"c","o","n","t","e","n","t","_","t","y","p","e">>
w_access_token == <<"a","c","c","e","s","s","_","t","o","k","e","n">>
w_select == <<"s","e","l","e","c","t">>
w_query == <<"q","u","e","r","y">>
w_links_to_entry == <<"l","i","n","k","s","_","t","o","_","e","n","t","r","y">>
w_links_to_asset == <<"l","i","n","k","s","_","t","o","_","a","s","s","e","t">>
w_skip == <<"s","k","i","p">>
w_mimetype_group == <<"m","i","m","e","t","y","p","e","_","g","r","o","u","p">>
w_where == <<"w","h","e","r","e">>
w_Collection == <<"C","o","l","l","e","c","t","i","o","n">>
w_fieldsDot == <<"f","i","e","l","d","s",".">>
w_sysDot == <<"s","y","s",".">>
w__in == <<"_","i","n">>
w__not == <<"_","n","o","t">>
w__exists == <<"_","e","x","i","s","t","s">>
w__not_in == <<"_","n","o","t","_","i","n">>
w_brIn == <<"[","i","n","]">>
w_brNe == <<"[","n","e","]">>
w_brExists == <<"[","e","x","i","s","t","s","]">>
w_brNin == <<"[","n","i","n","]">>
w_dotDESC == <<".","D","E","S","C">>
w_dotASC == <<".","A","S","C">>
w_sysFirstPublishedAt == <<"s","y","s",".","f","i","r","s","t","P","u","b","l","i","s","h","e","d","A","t">>
w_sysCreatedAt == <<"s","y","s",".","c","r","e","a","t","e","d","A","t">>
w_sysPublishedAt == <<"s","y","s",".","p","u","b","l","i","s","h","e","d","A","t">>
w_sysUpdatedAt == <<"s","y","s",".","u","p","d","a","t","e","d","A","t">>

\* words that only occur in the inputs the model enumerates
w_post == <<"p","o","s","t">>
w_Items == <<"I","t","e","m","s">>
w_title == <<"t","i","t","l","e">>
w_slug == <<"s","l","u","g">>
w_publishedAt == <<"p","u","b","l","i","s","h","e","d","A","t">>
w_firstPublishedAt == <<"f","i","r","s","t","P","u","b","l","i","s","h","e","d","A","t">>
w_DESC == <<"D","E","S","C">>
w_ASC == <<"A","S","C">>
w_us == <<"_">>
w_abc123 == <<"a","b","c","1","2","3">>
w_2 == <<"2">>
w_x == <<"x">>
w_page == <<"p","a","g","e">>
w_en == <<"e","n">>
w_titles == <<"t","i","t","l","e","s">>
w_isPreview == <<"i","s","P","r","e","v","i","e","w">>
w_sort == <<"s","o","r","t">>
w_minus == <<"-">>
w_comma == <<",">>

\* ------------------------------------------------------------------------
\* String.prototype operations on character sequences
\* ------------------------------------------------------------------------
\* s.startsWith(p)
startsWith(s, p) ==
  Len(p) <= Len(s) /\ SubSeq(s, 1, Len(p)) = p

\* s.endsWith(p)
endsWith(s, p) ==
  Len(p) <= Len(s) /\ SubSeq(s, Len(s) - Len(p) + 1, Len(s)) = p

\* the positions at which p occurs in s
Occurrences(s, p) ==
  { i \in 1..(Len(s) - Len(p) + 1) : SubSeq(s, i, i + Len(p) - 1) = p }

\* s.includes(p)
includes(s, p) == Occurrences(s, p) # {}

\* s.indexOf(p), 1-based; 0 when p does not occur
indexOf(s, p) ==
  IF Occurrences(s, p) = {} THEN 0
  ELSE CHOOSE i \in Occurrences(s, p) : \A j \in Occurrences(s, p) : i <= j

\* s.replace(p, r) with a string pattern: only the FIRST occurrence is replaced
replace(s, p, r) ==
  IF indexOf(s, p) = 0 THEN s
  ELSE SubSeq(s, 1, indexOf(s, p) - 1) \o r
       \o SubSeq(s, indexOf(s, p) + Len(p), Len(s))

\* s.replace(/c/g, r) for a one-character pattern c: every occurrence
replaceAllChar(s, c, r) ==
  [ i \in 1..Len(s) |-> IF s[i] = c THEN r ELSE s[i] ]

\* ------------------------------------------------------------------------
\* JavaScript values
\* ------------------------------------------------------------------------
JsUndef == [t |-> "undefined", b |-> FALSE, s |-> <<>>, l |-> <<>>]
JsStr(str) == [t |-> "string", b |-> FALSE, s |-> str, l |-> <<>>]
JsBool(bool) == [t |-> "boolean", b |-> bool, s |-> <<>>, l |-> <<>>]
\* an array of strings
JsList(list) == [t |-> "array", b |-> FALSE, s |-> <<>>, l |-> list]
\* a number, by its decimal digits
JsNum(digits) == [t |-> "number", b |-> FALSE, s |-> digits, l |-> <<>>]

\* ToBoolean(v)
truthy(v) ==
  CASE v.t = "undefined" -> FALSE
    [] v.t = "boolean" -> v.b
    [] v.t = "string" -> v.s # <<>>
    [] v.t = "number" -> v.s # <<"0">>
    [] OTHER -> TRUE

\* ------------------------------------------------------------------------
\* Objects used as maps from string keys to values
\* ------------------------------------------------------------------------
EmptyObj == [k \in {} |-> JsUndef]

\* { [key]: value }
Obj1(key, value) == [k \in {key} |-> value]

\* obj.hasOwnProperty(key)
hasOwnProperty(obj, key) == key \in DOMAIN obj

\* { ...a, ...b }
spread(a, b) ==
  [k \in (DOMAIN a) \cup (DOMAIN b) |-> IF k \in DOMAIN b THEN b[k] ELSE a[k]]

\* lomit's omit(obj, keys)
omit(obj, keys) == [k \in (DOMAIN obj) \ keys |-> obj[k]]

\* the elements of a sequence
Range(seq) == { seq[i] : i \in 1..Len(seq) }

\* array.join(sep) for an array of strings
RECURSIVE join(_, _)
join(list, sep) ==
  IF Len(list) = 0 THEN <<>>
  ELSE IF Len(list) = 1 THEN list[1]
  ELSE list[1] \o sep \o join(Tail(list), sep)

\* the concatenation of a sequence of sequences
RECURSIVE Flatten(_)
Flatten(seqs) ==
  IF Len(seqs) = 0 THEN <<>> ELSE Head(seqs) \o Flatten(Tail(seqs))

\* ------------------------------------------------------------------------
\* utils: getSearchKey, getOrderValue
\* ------------------------------------------------------------------------
\* the Reserved Parameter Set
contentfulReservedParameters ==
  { w_access_token, w_id, w_include, w_locale, w_content_type, w_select,
    w_query, w_links_to_entry, w_links_to_asset, w_order, w_limit, w_skip,
    w_mimetype_group, w_preview }

\* getSearchKey: the suffix tests in the order of the source
\* (`_in`, `_not`, `_exists`, `_not_in`)
getSearchKey(variableKey) ==
  IF endsWith(variableKey, w__in)
    THEN w_fieldsDot \o replace(variableKey, w__in, <<>>) \o w_brIn
  ELSE IF endsWith(variableKey, w__not)
    THEN w_fieldsDot \o replace(variableKey, w__not, <<>>) \o w_brNe
  ELSE IF endsWith(variableKey, w__exists)
    THEN w_fieldsDot \o replace(variableKey, w__exists, <<>>) \o w_brExists
  ELSE IF endsWith(variableKey, w__not_in)
    THEN w_fieldsDot \o replace(variableKey, w__not_in, <<>>) \o w_brNin
  ELSE w_fieldsDot \o variableKey

\* getOrderValue, step 1: orderValue.replace(/_/g, '.')
orderDots(str) == replaceAllChar(str, "_", ".")

\* getOrderValue, step 2: prepend `fields.` unless prefixed by `sys.`
orderPrefix(str) ==
  IF ~startsWith(str, w_sysDot) THEN w_fieldsDot \o str ELSE str

\* the ordering direction without the `-` of a descending order
orderDirectionNoMinus(str) ==
  IF endsWith(str, w_dotDESC) THEN replace(str, w_dotDESC, <<>>)
  ELSE IF endsWith(str, w_dotASC) THEN replace(str, w_dotASC, <<>>)
  ELSE str

\* getOrderValue, step 3: the ordering direction
orderDirection(str) ==
  IF endsWith(str, w_dotDESC) THEN w_minus \o replace(str, w_dotDESC, <<>>)
  ELSE IF endsWith(str, w_dotASC) THEN replace(str, w_dotASC, <<>>)
  ELSE str

\* getOrderValue, step 4: sys date fields
orderSysDates(str) ==
  LET a == IF includes(str, w_sysFirstPublishedAt)
             THEN replace(str, w_sysFirstPublishedAt, w_sysCreatedAt)
             ELSE str
  IN IF includes(a, w_sysPublishedAt)
       THEN replace(a, w_sysPublishedAt, w_sysUpdatedAt)
       ELSE a

\* getOrderValue(orderValue), on a JavaScript value
getOrderValue(orderValue) ==
  IF ~truthy(orderValue) \/ orderValue.t # "string" THEN orderValue
  ELSE JsStr(orderSysDates(orderDirection(orderPrefix(orderDots(orderValue.s)))))

\* ------------------------------------------------------------------------
\* The query AST (graphql-js DocumentNode), reduced to the fields the
\* source reads
\* ------------------------------------------------------------------------
\* a value node; `value` is the literal of a scalar kind, `name` the name of
\* a Variable, `values` the elements of a ListValue, `fields` the
\* ObjectFields of an ObjectValue
Node(kind, value, name, values, fields) ==
  [kind |-> kind, value |-> value, name |-> name, values |-> values,
   fields |-> fields]
VariableNode(name) == Node("Variable", JsUndef, name, <<>>, <<>>)
ScalarNode(kind, value) == Node(kind, value, <<>>, <<>>, <<>>)
ListNode(values) == Node("ListValue", JsUndef, <<>>, values, <<>>)
ObjectNode(fields) == Node("ObjectValue", JsUndef, <<>>, <<>>, fields)

\* an Argument (kind 'Argument') or an ObjectField (kind 'ObjectField')
Arg(name, value) == [name |-> name, value |-> value]

\* a selection: a Field (name, arguments) or an InlineFragment, which has
\* neither a `name` nor `arguments`
Field(name, arguments) ==
  [kind |-> "Field", name |-> name, arguments |-> arguments]
InlineFragment == [kind |-> "InlineFragment", name |-> <<>>, arguments |-> <<>>]

\* an OperationDefinition or a FragmentDefinition (operation "none")
Definition(kind, operation, variableDefinitions, selections) ==
  [kind |-> kind, operation |-> operation,
   variableDefinitions |-> variableDefinitions, selections |-> selections]

\* ------------------------------------------------------------------------
\* utils: getRootQuery, getRootKey
\* ------------------------------------------------------------------------
\* getRootQuery(operation): the document itself (the document has no own
\* property named after the operation)
getRootQuery(operation) == operation.query

\* Array.prototype.find: the least of the indices that pass the test, 0 if
\* none does
firstOf(indices) ==
  IF indices = {} THEN 0
  ELSE CHOOSE i \in indices : \A j \in indices : i <= j

\* the definitions with definition.operation === 'query'
queryDefinitions(defs) ==
  { i \in 1..Len(defs) : defs[i].operation = "query" }

\* the definitions with definition.kind === DefinitionKind.OperationDefinition
operationDefinitions(defs) ==
  { i \in 1..Len(defs) : defs[i].kind = "OperationDefinition" }

\* the selections that have a name, of kind 'Name'
namedSelections(sels) ==
  { i \in 1..Len(sels) : sels[i].kind = "Field" }

\* getRootKey(operation): [thrown, isNull, value].  `selection.name.kind`
\* throws a TypeError on a selection without a name that find() visits
getRootKey(operation) ==
  LET defs == getRootQuery(operation).definitions
      d == firstOf(queryDefinitions(defs))
  IN IF d = 0 THEN [thrown |-> FALSE, isNull |-> TRUE, value |-> <<>>]
     ELSE LET sels == defs[d].selections
              f == firstOf(namedSelections(sels))
          IN IF \E i \in 1..Len(sels) :
                  sels[i].kind # "Field" /\ (f = 0 \/ i < f)
               THEN [thrown |-> TRUE, isNull |-> FALSE, value |-> <<>>]
             ELSE IF f = 0
               THEN [thrown |-> FALSE, isNull |-> TRUE, value |-> <<>>]
             ELSE [thrown |-> FALSE, isNull |-> FALSE, value |-> sels[f].name]

\* ------------------------------------------------------------------------
\* utils: buildVariableMap
\* ------------------------------------------------------------------------
\* the bindings one argument contributes, in the order they are written
argumentBindings(argument) ==
  IF argument.value.kind = "ObjectValue"
    THEN Flatten([ i \in 1..Len(argument.value.fields) |->
           IF argument.value.fields[i].value.kind = "Variable"
             THEN << [name |-> argument.value.fields[i].value.name,
                      kind |-> "ObjectField",
                      field |-> argument.value.fields[i].name] >>
             ELSE <<>> ])
  ELSE IF argument.value.kind = "Variable"
    THEN << [name |-> argument.value.name, kind |-> "Argument",
             field |-> argument.name] >>
  ELSE <<>>

\* every binding of every selection of every OperationDefinition
allBindings(operation) ==
  LET defs == getRootQuery(operation).definitions
  IN Flatten([ d \in 1..Len(defs) |->
       IF defs[d].kind = "OperationDefinition"
         THEN Flatten([ x \in 1..Len(defs[d].selections) |->
                Flatten([ a \in 1..Len(defs[d].selections[x].arguments) |->
                  argumentBindings(defs[d].selections[x].arguments[a]) ]) ])
         ELSE <<>> ])

\* variableMap[name] = binding: a later write to a key keeps the key's place
\* in Object.keys and replaces its value
RECURSIVE putAll(_, _)
putAll(map, bindings) ==
  IF Len(bindings) = 0 THEN map
  ELSE LET b == Head(bindings)
           at == { i \in 1..Len(map) : map[i].name = b.name }
       IN putAll(IF at = {} THEN Append(map, b)
                 ELSE [ i \in 1..Len(map) |-> IF i \in at THEN b ELSE map[i] ],
                 Tail(bindings))

\* buildVariableMap throws when a selection of an OperationDefinition has no
\* `arguments` (selection.arguments.forEach)
buildVariableMapThrows(operation) ==
  LET defs == getRootQuery(operation).definitions
  IN \E d \in 1..Len(defs) :
       /\ defs[d].kind = "OperationDefinition"
       /\ \E x \in 1..Len(defs[d].selections) :
            defs[d].selections[x].kind # "Field"

\* buildVariableMap(operation): the entries in Object.keys order
buildVariableMap(operation) == putAll(<<>>, allBindings(operation))

\* ------------------------------------------------------------------------
\* utils: parseQueryVariables
\* ------------------------------------------------------------------------
\* String(v), as Array.prototype.join applies it to an element
jsToString(v) ==
  CASE v.t \in {"string", "number"} -> v.s
    [] v.t = "boolean" -> IF v.b THEN <<"t","r","u","e">>
                                 ELSE <<"f","a","l","s","e">>
    [] v.t = "array" -> join(v.l, w_comma)
    [] OTHER -> <<>>

\* the operation definition parseQueryVariables works on: the index of the
\* first definition of kind OperationDefinition, 0 if there is none
operationDefinitionIndex(operation) ==
  firstOf(operationDefinitions(getRootQuery(operation).definitions))

\* parseQueryVariables throws a TypeError: in buildVariableMap, or on a
\* document without an OperationDefinition, or without a first selection
parseQueryVariablesThrows(operation) ==
  \/ buildVariableMapThrows(operation)
  \/ operationDefinitionIndex(operation) = 0
  \/ Len(getRootQuery(operation)
           .definitions[operationDefinitionIndex(operation)].selections) = 0

\* operationVariables: the names the operation declares
operationVariables(operation) ==
  Range(getRootQuery(operation)
          .definitions[operationDefinitionIndex(operation)].variableDefinitions)

\* the value operationArguments gives one argument of the first selection
\* (the switch on argument.value.kind); JsUndef stands for null
argumentValue(argument) ==
  CASE argument.value.kind = "ListValue" ->
         JsStr(join([ i \in 1..Len(argument.value.values) |->
                      jsToString(IF argument.name = w_order
                                   THEN getOrderValue(argument.value.values[i].value)
                                   ELSE argument.value.values[i].value) ],
                    w_comma))
    [] argument.value.kind \in
         {"BooleanValue", "EnumValue", "FloatValue", "IntValue", "StringValue"} ->
         argument.value.value
    [] argument.value.kind = "Variable" -> JsStr(argument.value.name)
    [] OTHER -> JsUndef

\* the reduce of a sequence of [emit, key, value] items into one object:
\* items that are not emitted are filtered out, later keys override
RECURSIVE reduceItems(_, _)
reduceItems(acc, items) ==
  IF Len(items) = 0 THEN acc
  ELSE reduceItems(
         IF Head(items).emit
           THEN spread(acc, Obj1(Head(items).key, Head(items).value))
           ELSE acc,
         Tail(items))

\* operationArguments: layer 1, the arguments of the first selection
operationArguments(operation) ==
  LET arguments == getRootQuery(operation)
                     .definitions[operationDefinitionIndex(operation)]
                     .selections[1].arguments
  IN reduceItems(EmptyObj,
       [ i \in 1..Len(arguments) |->
           [emit |-> arguments[i].name # <<>> /\ truthy(argumentValue(arguments[i])),
            key |-> arguments[i].name,
            value |-> argumentValue(arguments[i])] ])

\* the `preview` special case of the Argument kind (line 492)
excludePreview(field, value) == field = w_preview /\ ~truthy(value)

\* what operationQueries maps one bound variable to: its binding and its
\* runtime value give an item [emit, key, value].  A throw inside the map
\* callback (value.map on a value that is not an array) is caught and gives
\* null, an item that is not emitted
translateBinding(binding, value) ==
  LET none == [emit |-> FALSE, key |-> <<>>, value |-> JsUndef]
  IN CASE binding.kind = "Argument" ->
            IF binding.field # <<>>
               /\ binding.field \in contentfulReservedParameters
              THEN IF excludePreview(binding.field, value) THEN none
                   ELSE IF binding.field = w_order
                     THEN IF value.t = "array"
                            THEN [emit |-> TRUE, key |-> binding.field,
                                  value |-> JsStr(join(
                                    [ i \in 1..Len(value.l) |->
                                        getOrderValue(JsStr(value.l[i])).s ],
                                    w_comma))]
                            ELSE none
                   ELSE [emit |-> TRUE, key |-> binding.field, value |-> value]
              ELSE none
       [] binding.kind = "ObjectField" ->
            [emit |-> TRUE, key |-> getSearchKey(binding.field), value |-> value]
       [] OTHER -> none

\* operationQueries: layer 2, the bound variables that have a runtime value
operationQueries(operation) ==
  LET variableMap == buildVariableMap(operation)
      variables == operation.variables
  IN reduceItems(EmptyObj,
       [ i \in 1..Len(variableMap) |->
           IF hasOwnProperty(variables, variableMap[i].name)
             THEN translateBinding(variableMap[i], variables[variableMap[i].name])
             ELSE [emit |-> FALSE, key |-> <<>>, value |-> JsUndef] ])

\* a merge in which the runtime variables are the first layer, not the last
parseQueryVariablesVariablesFirst(operation) ==
  spread(omit(operation.variables, operationVariables(operation)),
         spread(operationArguments(operation), operationQueries(operation)))

\* parseQueryVariables(operation), when it does not throw
parseQueryVariables(operation) ==
  spread(spread(operationArguments(operation), operationQueries(operation)),
         omit(operation.variables, operationVariables(operation)))

\* ------------------------------------------------------------------------
\* ContentfulRestLink.request: the synchronous part run for one upstream
\* emission (the subscriber of the inner Observable, lines 52-83)
\* ------------------------------------------------------------------------
\* queryMethod (lines 60-62)
queryMethod(queryVariables) ==
  IF hasOwnProperty(queryVariables, w_id) THEN "getEntry" ELSE "getEntries"

\* rootKey.replace('Collection', '') (line 70)
contentType(rootKey) == replace(rootKey, w_Collection, <<>>)

\* a getEntry parameter object that keeps the `preview` key
getEntryParamsKeepPreview(queryDefaults, queryVariables) ==
  spread(queryDefaults, omit(queryVariables, {w_id}))

\* the parameter object of the getEntry call (line 66)
getEntryParams(queryDefaults, queryVariables) ==
  spread(queryDefaults, omit(queryVariables, {w_id, w_preview}))

\* the parameter object of the getEntries call (lines 67-71)
getEntriesParams(queryDefaults, queryVariables, rootKey) ==
  spread(spread(queryDefaults, omit(queryVariables, {w_preview})),
         Obj1(w_content_type, JsStr(contentType(rootKey))))

\* a usePreview that does not look at the value of `preview`
usePreviewAnyValue(previewClient, queryVariables) ==
  /\ previewClient
  /\ hasOwnProperty(queryVariables, w_preview)

\* usePreview (lines 74-77)
usePreview(previewClient, queryVariables) ==
  /\ previewClient
  /\ hasOwnProperty(queryVariables, w_preview)
  /\ truthy(queryVariables[w_preview])

\* the subscriber throws a TypeError before it calls a client: in getRootKey,
\* in parseQueryVariables, or in rootKey.replace on a null rootKey
translationThrows(operation) ==
  \/ getRootKey(operation).thrown
  \/ parseQueryVariablesThrows(operation)
  \/ /\ queryMethod(parseQueryVariables(operation)) = "getEntries"
     /\ getRootKey(operation).isNull

\* the call client[queryMethod](...queryArgs) (line 83), when nothing throws
clientCall(inner, operation, queryDefaults, previewClient) ==
  LET queryVariables == parseQueryVariables(operation)
      method == queryMethod(queryVariables)
  IN [inner |-> inner,
      client |-> IF usePreview(previewClient, queryVariables)
                   THEN "previewClient" ELSE "client",
      method |-> method,
      id |-> IF method = "getEntry" THEN queryVariables[w_id] ELSE JsUndef,
      params |-> IF method = "getEntry"
                   THEN getEntryParams(queryDefaults, queryVariables)
                   ELSE getEntriesParams(queryDefaults, queryVariables,
                                         getRootKey(operation).value)]

\* ContentfulRestLink.constructor: a preview client is created when
\* clientOptions has a non-empty previewAccessToken (line 27)
hasPreviewClient(previewAccessToken) ==
  previewAccessToken # "absent" /\ previewAccessToken # "empty"

\* ------------------------------------------------------------------------
\* The inputs the model enumerates
\* ------------------------------------------------------------------------
\* an Operation: the document and the runtime variables
Operation(definitions, variables) ==
  [query |-> [definitions |-> definitions], variables |-> variables]

\* { [k1]: v1, [k2]: v2 }
Obj2(k1, v1, k2, v2) == spread(Obj1(k1, v1), Obj1(k2, v2))

orderEnum == w_publishedAt \o w_us \o w_DESC
sysOrder == w_sysDot \o w_publishedAt \o w_us \o w_ASC

\* argument lists of the first selection, each with the variables the
\* operation declares and the runtime variable objects tried with it
ArgumentChoices ==
  { \* no arguments; runtime variables the operation does not declare
    [arguments |-> <<>>, declared |-> <<>>,
     variables |-> { EmptyObj, Obj1(w_locale, JsStr(w_en)),
                     Obj1(w_content_type, JsStr(w_page)),
                     Obj1(w_preview, JsBool(TRUE)),
                     Obj1(w_preview, JsBool(FALSE)),
                     Obj1(w_id, JsStr(w_abc123)) }],
    \* postCollection(order: [publishedAt_DESC], limit: 2)
    [arguments |-> << Arg(w_order, ListNode(<< ScalarNode("EnumValue", JsStr(orderEnum)) >>)),
                      Arg(w_limit, ScalarNode("IntValue", JsStr(w_2))) >>,
     declared |-> <<>>,
     variables |-> { EmptyObj }],
    \* post(id: $id)
    [arguments |-> << Arg(w_id, VariableNode(w_id)) >>, declared |-> << w_id >>,
     variables |-> { EmptyObj, Obj1(w_id, JsStr(w_abc123)) }],
    \* post(preview: $preview)
    [arguments |-> << Arg(w_preview, VariableNode(w_preview)) >>,
     declared |-> << w_preview >>,
     variables |-> { EmptyObj, Obj1(w_preview, JsBool(TRUE)),
                     Obj1(w_preview, JsBool(FALSE)) }],
    \* post(preview: $isPreview)
    [arguments |-> << Arg(w_preview, VariableNode(w_isPreview)) >>,
     declared |-> << w_isPreview >>,
     variables |-> { Obj1(w_isPreview, JsBool(TRUE)),
                     Obj1(w_isPreview, JsBool(FALSE)),
                     Obj2(w_isPreview, JsBool(TRUE), w_preview, JsBool(FALSE)) }],
    \* post(id: $id, preview: $preview)
    [arguments |-> << Arg(w_id, VariableNode(w_id)),
                      Arg(w_preview, VariableNode(w_preview)) >>,
     declared |-> << w_id, w_preview >>,
     variables |-> { Obj2(w_id, JsStr(w_abc123), w_preview, JsBool(TRUE)),
                     Obj2(w_id, JsStr(w_abc123), w_preview, JsBool(FALSE)) }],
    \* post(id: "abc123")
    [arguments |-> << Arg(w_id, ScalarNode("StringValue", JsStr(w_abc123))) >>,
     declared |-> <<>>, variables |-> { EmptyObj }],
    \* post(preview: true), post(preview: false)
    [arguments |-> << Arg(w_preview, ScalarNode("BooleanValue", JsBool(TRUE))) >>,
     declared |-> <<>>, variables |-> { EmptyObj }],
    [arguments |-> << Arg(w_preview, ScalarNode("BooleanValue", JsBool(FALSE))) >>,
     declared |-> <<>>, variables |-> { EmptyObj }],
    \* post(where: {title_not_in: $titles}, slug: $slug)
    [arguments |-> << Arg(w_where, ObjectNode(<< Arg(w_title \o w__not_in,
                                                     VariableNode(w_titles)) >>)),
                      Arg(w_slug, VariableNode(w_slug)) >>,
     declared |-> << w_titles, w_slug >>,
     variables |-> { Obj2(w_titles, JsList(<< w_x >>), w_slug, JsStr(w_x)),
                     Obj2(w_slug, JsStr(w_x), w_locale, JsStr(w_en)) }],
    \* post(order: $sort)
    [arguments |-> << Arg(w_order, VariableNode(w_sort)) >>,
     declared |-> << w_sort >>,
     variables |-> { Obj1(w_sort, JsList(<< orderEnum, sysOrder >>)),
                     Obj1(w_sort, JsStr(orderEnum)) }],
    \* post(content_type: "page", limit: $limit)
    [arguments |-> << Arg(w_content_type, ScalarNode("StringValue", JsStr(w_page))),
                      Arg(w_limit, VariableNode(w_limit)) >>,
     declared |-> << w_limit >>,
     variables |-> { Obj1(w_limit, JsNum(w_2)),
                     Obj2(w_limit, JsNum(w_2), w_skip, JsNum(w_2)),
                     Obj2(w_limit, JsNum(w_2), w_content_type, JsStr(w_x)) }] }

\* the names of the first selection
RootNames == { w_post, w_post \o w_Collection, w_post \o w_Collection \o w_Items }

\* a document with one operation definition whose only selection is a field
FieldOperations ==
  UNION { { Operation(<< Definition("OperationDefinition", kind, c.declared,
                                    << Field(root, c.arguments) >>) >>, v) :
              kind \in {"query", "mutation"}, root \in RootNames,
              v \in c.variables } :
          c \in ArgumentChoices }

\* documents getRootKey or parseQueryVariables throws on: an inline fragment
\* as the first selection, and a document with a fragment definition only
MalformedOperations ==
  { Operation(<< Definition("OperationDefinition", "query", <<>>,
                            << InlineFragment, Field(w_post, <<>>) >>) >>, EmptyObj),
    Operation(<< Definition("FragmentDefinition", "none", <<>>,
                            << Field(w_title, <<>>) >>) >>, EmptyObj) }

Operations == FieldOperations \cup MalformedOperations

\* the operations tried with an upstream `forward` link
ForwardOperations ==
  { o \in Operations :
      /\ o.query.definitions[1].selections[1].name \in {w_post, <<>>}
      /\ \/ o.variables = Obj1(w_id, JsStr(w_abc123))
         \/ o.variables = Obj1(w_preview, JsBool(TRUE))
         \/ /\ o.variables = EmptyObj
            /\ o.query.definitions[1].selections[1].arguments = <<>> }

\* queryDefaults, the second argument of the constructor
QueryDefaults ==
  { EmptyObj, Obj1(w_include, JsNum(w_2)),
    Obj2(w_content_type, JsStr(w_x), w_preview, JsBool(TRUE)) }

\* clientOptions.previewAccessToken: no such property, '', or a token
PreviewAccessTokens == { "absent", "empty", "token" }

\* the `errors` an upstream emission carries: undefined, or a list of errors
UpstreamErrors == { "undefined", "errors" }

\* ------------------------------------------------------------------------
\* Inputs of the pure helpers getSearchKey and getOrderValue
\* ------------------------------------------------------------------------
\* the words field names are made of
BaseWords == { w_title, w_x, w_publishedAt, w_firstPublishedAt }

\* the names of at most n words joined by `_`
RECURSIVE BaseNames(_)
BaseNames(n) ==
  IF n <= 1 THEN BaseWords
  ELSE BaseNames(n - 1)
         \cup { a \o w_us \o b : a \in BaseNames(n - 1), b \in BaseWords }

\* the suffixes of the query-variable syntax, and none
Suffixes ==
  { <<>>, w__in, w__not, w__exists, w__not_in, w_us \o w_DESC, w_us \o w_ASC }

\* a name, with or without the `sys.` prefix, followed by a suffix; and ''
HelperStrings ==
  { p \o b \o x : p \in { <<>>, w_sysDot }, b \in BaseNames(MaxParts),
                  x \in Suffixes } \cup { <<>> }

\* the values given to the helpers: strings, and values that are no strings
HelperInputs ==
  { JsStr(n) : n \in HelperStrings }
    \cup { JsUndef, JsBool(TRUE), JsBool(FALSE), JsNum(w_2),
           JsList(<< orderEnum >>) }

\* ------------------------------------------------------------------------
\* State
\* ------------------------------------------------------------------------
VARIABLES
  mode,             \* "request": a run of the link; "helper": a helper call
  operation,        \* the Operation given to request
  forward,          \* whether request is given a `forward` link
  clientOptions,    \* this.clientOptions (its previewAccessToken)
  queryDefaults,    \* this.queryDefaults
  previewClient,    \* whether this.previewClient is defined
  upstream,         \* the outer subscription: idle, open, completed,
                    \* errored, unsubscribed
  emitted,          \* the number of results the upstream has emitted
  inner,            \* per upstream emission: the inner Observable's progress
  calls,            \* the calls made on the Contentful clients, in order
  delivered,        \* what the caller's observer has been sent, in order
  helperIn,         \* the argument of the helper call
  helperOut,        \* the results of the helper call
  helperPc          \* "idle", "searchKey", "orderValue"

vars == << mode, operation, forward, clientOptions, queryDefaults,
           previewClient, upstream, emitted, inner, calls, delivered,
           helperIn, helperOut, helperPc >>

config == << mode, operation, forward, clientOptions, queryDefaults,
             previewClient >>
helper == << helperIn, helperOut, helperPc >>

Inners == 1..MaxEmits

\* the inner Observable of an upstream emission that has not happened
NoInner ==
  [pc |-> "none", errors |-> "undefined", reshaped |-> FALSE,
   evaluated |-> FALSE]

\* the caller's subscription is closed: its observer got complete or error
Closed ==
  \E k \in 1..Len(delivered) : delivered[k].type \in {"complete", "error"}

\* the inner subscriptions flatMap still holds: those that have neither
\* completed nor failed
Subscribed(in) == { i \in Inners : in[i].pc \in {"fetching", "evaluating", "logged"} }

Event(type, i, errors, error) ==
  [type |-> type, inner |-> i, errors |-> errors, error |-> error]

\* observer.error(e) on the caller's observer: dropped when the subscription
\* is closed; otherwise delivered, and the cleanup unsubscribes the upstream
sendError(i, error) ==
  IF Closed THEN UNCHANGED << delivered, upstream >>
  ELSE /\ delivered' = Append(delivered, Event("error", i, "undefined", error))
       /\ upstream' = IF upstream = "open" THEN "unsubscribed" ELSE upstream

\* ------------------------------------------------------------------------
\* Init: the link after its constructor, and the operation it will be given;
\* or a call of one of the helpers
\* ------------------------------------------------------------------------
InitRequest ==
  /\ mode = "request"
  /\ forward \in BOOLEAN
  /\ operation \in (IF forward THEN ForwardOperations ELSE Operations)
  /\ clientOptions \in [previewAccessToken : PreviewAccessTokens]
  /\ queryDefaults \in QueryDefaults
  /\ previewClient = hasPreviewClient(clientOptions.previewAccessToken)
  /\ helperIn = JsUndef

InitHelper ==
  /\ mode = "helper"
  /\ forward = FALSE
  /\ operation = Operation(<<>>, EmptyObj)
  /\ clientOptions = [previewAccessToken |-> "absent"]
  /\ queryDefaults = EmptyObj
  /\ previewClient = FALSE
  /\ helperIn \in HelperInputs

Init ==
  /\ InitRequest \/ InitHelper
  /\ upstream = "idle"
  /\ emitted = 0
  /\ inner = [i \in Inners |-> NoInner]
  /\ calls = <<>>
  /\ delivered = <<>>
  /\ helperOut = [searchKey |-> <<>>, orderValue |-> JsUndef]
  /\ helperPc = "idle"

\* ------------------------------------------------------------------------
\* Actions of a request
\* ------------------------------------------------------------------------
\* the caller subscribes to the Observable request returned: flatMap
\* subscribes to the upstream (forward(operation), or Observable.of)
Subscribe ==
  /\ mode = "request"
  /\ upstream = "idle"
  /\ upstream' = "open"
  /\ UNCHANGED << config, emitted, inner, calls, delivered, helper >>

\* the upstream emits {data, errors}: flatMap runs the callback of line 52
\* and subscribes to the Observable it returns, whose subscriber runs the
\* translation and calls the client; a throw in it becomes observer.error
Emission(errors, thenComplete) ==
  LET i == emitted + 1
  IN /\ emitted' = i
     /\ IF translationThrows(operation)
          THEN /\ inner' = [inner EXCEPT ![i] = [NoInner EXCEPT
                              !.pc = "threw", !.errors = errors]]
               /\ calls' = calls
               /\ delivered' = Append(delivered,
                                 Event("error", i, "undefined", "TypeError"))
               /\ upstream' = IF thenComplete THEN "completed" ELSE "unsubscribed"
          ELSE /\ inner' = [inner EXCEPT ![i] = [NoInner EXCEPT
                              !.pc = "fetching", !.errors = errors]]
               /\ calls' = Append(calls, clientCall(i, operation, queryDefaults,
                                                    previewClient))
               /\ delivered' = delivered
               /\ upstream' = IF thenComplete THEN "completed" ELSE upstream

\* forward(operation) emits a result
UpstreamNext ==
  /\ mode = "request" /\ forward
  /\ upstream = "open"
  /\ emitted < MaxEmits
  /\ \E errors \in UpstreamErrors : Emission(errors, FALSE)
  /\ UNCHANGED << config, helper >>

\* without forward: Observable.of({ data: {} }) emits its one value and
\* completes in the same job
UpstreamOf ==
  /\ mode = "request" /\ ~forward
  /\ upstream = "open"
  /\ Emission("undefined", TRUE)
  /\ UNCHANGED << config, helper >>

\* forward(operation) completes: completeIfDone
UpstreamComplete ==
  /\ mode = "request" /\ forward
  /\ upstream = "open"
  /\ upstream' = "completed"
  /\ delivered' = IF Subscribed(inner) = {} /\ ~Closed
                    THEN Append(delivered, Event("complete", 0, "undefined", "none"))
                    ELSE delivered
  /\ UNCHANGED << config, emitted, inner, calls, helper >>

\* forward(operation) fails: the error goes to the caller
UpstreamError ==
  /\ mode = "request" /\ forward
  /\ upstream = "open"
  /\ upstream' = "errored"
  /\ delivered' = Append(delivered, Event("error", 0, "undefined", "UpstreamError"))
  /\ UNCHANGED << config, emitted, inner, calls, helper >>

\* the client's promise resolves (lines 84-100): buildDefinitionMap and
\* graphqlParser run and graphql is called
FetchResolve(i) ==
  /\ inner[i].pc = "fetching"
  /\ inner' = [inner EXCEPT ![i].pc = "evaluating", ![i].reshaped = TRUE,
                            ![i].evaluated = TRUE]
  /\ UNCHANGED << config, upstream, emitted, calls, delivered, helper >>

\* the client's promise resolves and graphqlParser throws: the rejection
\* reaches the catch of line 107
FetchResolveParserThrows(i) ==
  /\ inner[i].pc = "fetching"
  /\ inner' = [inner EXCEPT ![i].pc = "parserThrew", ![i].reshaped = TRUE]
  /\ sendError(i, "ParserError")
  /\ UNCHANGED << config, emitted, calls, helper >>

\* the client's promise rejects: the catch of line 107
FetchReject(i) ==
  /\ inner[i].pc = "fetching"
  /\ inner' = [inner EXCEPT ![i].pc = "rejected"]
  /\ sendError(i, "FetchError")
  /\ UNCHANGED << config, emitted, calls, helper >>

\* graphql resolves (lines 101-104): observer.next, then observer.complete,
\* on which flatMap drops the inner subscription and runs completeIfDone
EvalResolve(i) ==
  /\ inner[i].pc = "evaluating"
  /\ inner' = [inner EXCEPT ![i].pc = "done"]
  /\ delivered' =
       IF Closed THEN delivered
       ELSE Append(delivered, Event("next", i, inner[i].errors, "none"))
              \o (IF upstream = "completed" /\ Subscribed(inner) = {i}
                    THEN << Event("complete", 0, "undefined", "none") >>
                    ELSE <<>>)
  /\ UNCHANGED << config, upstream, emitted, calls, helper >>

\* graphql rejects: the catch of line 105 logs the error, and nothing is
\* sent to the observer
EvalReject(i) ==
  /\ inner[i].pc = "evaluating"
  /\ inner' = [inner EXCEPT ![i].pc = "logged"]
  /\ UNCHANGED << config, upstream, emitted, calls, delivered, helper >>

\* ------------------------------------------------------------------------
\* Actions of a helper call
\* ------------------------------------------------------------------------
\* getSearchKey(variableKey), on a string
ApplySearchKey ==
  /\ mode = "helper" /\ helperPc = "idle"
  /\ helperIn.t = "string"
  /\ helperOut' = [helperOut EXCEPT !.searchKey = getSearchKey(helperIn.s)]
  /\ helperPc' = "searchKey"
  /\ UNCHANGED << config, upstream, emitted, inner, calls, delivered, helperIn >>

\* getOrderValue(orderValue), on any value
ApplyOrderValue ==
  /\ mode = "helper" /\ helperPc = "idle"
  /\ helperOut' = [helperOut EXCEPT !.orderValue = getOrderValue(helperIn)]
  /\ helperPc' = "orderValue"
  /\ UNCHANGED << config, upstream, emitted, inner, calls, delivered, helperIn >>

Next ==
  \/ Subscribe
  \/ UpstreamNext
  \/ UpstreamOf
  \/ UpstreamComplete
  \/ UpstreamError
  \/ \E i \in Inners : FetchResolve(i)
  \/ \E i \in Inners : FetchResolveParserThrows(i)
  \/ \E i \in Inners : FetchReject(i)
  \/ \E i \in Inners : EvalResolve(i)
  \/ \E i \in Inners : EvalReject(i)
  \/ ApplySearchKey
  \/ ApplyOrderValue

Spec == Init /\ [][Next]_vars

\* ------------------------------------------------------------------------
\* What the caller has observed
\* ------------------------------------------------------------------------
\* the events of one type sent to the caller's observer
Sent(type) == { k \in 1..Len(delivered) : delivered[k].type = type }

\* no callback of the request is pending any more: the upstream is closed
\* and no client call or graphql evaluation is still running
Quiescent ==
  /\ upstream \in {"completed", "errored", "unsubscribed"}
  /\ \A i \in Inners : inner[i].pc \notin {"fetching", "evaluating"}

\* one success emission followed by completion, and nothing else
OneSuccess ==
  /\ Len(delivered) = 2
  /\ delivered[1].type = "next"
  /\ delivered[2].type = "complete"

\* one failure, and nothing else
OneFailure == Len(delivered) = 1 /\ delivered[1].type = "error"

\* ------------------------------------------------------------------------
\* Claims
\* ------------------------------------------------------------------------
\* C1: every request whose upstream emits reaches exactly one terminal
\* outcome, a single success emission followed by completion or a single
\* failure; in particular a rejection of the graphql evaluation ends in a
\* failure.  Stated on the runs that have nothing left to do: once no
\* callback is pending, the caller has observed exactly one outcome.
C1_ExactlyOneTerminalOutcome ==
  (mode = "request" /\ emitted > 0 /\ Quiescent) => (OneSuccess \/ OneFailure)

\* C1, the case the claim singles out has happened: graphql rejected and the
\* caller has been sent nothing
C1_EvaluatorRejected ==
  /\ Quiescent
  /\ \E i \in Inners : inner[i].pc = "logged"
  /\ delivered = <<>>

\* C2: for one Operation at most one {data, errors} emission is delivered,
\* whatever the upstream does; the emission carries the errors of the
\* upstream emission, no emission comes after the completion, and no
\* emission is followed or preceded by a failure.
C2_AtMostOneEmission ==
  /\ Cardinality(Sent("next")) <= 1
  /\ \A k \in Sent("next") : delivered[k].errors = inner[delivered[k].inner].errors
  /\ \A k \in Sent("next") : \A j \in Sent("complete") : k < j
  /\ Sent("next") = {} \/ Sent("error") = {}

\* C2, the case: the upstream has emitted twice and both results came out
C2_TwoEmissions == emitted = 2 /\ Cardinality(Sent("next")) = 2

\* C3: when the client call rejects, the caller observes exactly one failure
\* carrying that error, no emission and no completion; the parser and the
\* evaluator are not invoked, and no second call is issued for the request.
C3_FetchRejection ==
  \A i \in Inners :
    inner[i].pc = "rejected" =>
      /\ Sent("error") # {}
      /\ \A k \in Sent("error") :
           delivered[k].error = "FetchError" /\ delivered[k].inner = i
      /\ Cardinality(Sent("error")) = 1
      /\ Sent("next") = {} /\ Sent("complete") = {}
      /\ ~inner[i].reshaped /\ ~inner[i].evaluated
      /\ Len(calls) = 1

\* C3, the case: a client call has rejected
C3_Rejected == \E i \in Inners : inner[i].pc = "rejected"

\* ------------------------------------------------------------------------
\* Claims about the translation; they are stated on the requests whose
\* upstream has emitted, that is, whose translation has run
\* ------------------------------------------------------------------------
\* the translation of the operation has run without a throw
Translated ==
  mode = "request" /\ emitted > 0 /\ ~translationThrows(operation)

\* the first selection of the operation's first OperationDefinition
firstSelection ==
  operation.query.definitions[operationDefinitionIndex(operation)].selections[1]

\* the declared variables bound to the `preview` argument of the first
\* selection that have a runtime value
previewVariables ==
  { firstSelection.arguments[a].value.name :
      a \in { a \in 1..Len(firstSelection.arguments) :
                /\ firstSelection.arguments[a].name = w_preview
                /\ firstSelection.arguments[a].value.kind = "Variable"
                /\ firstSelection.arguments[a].value.name
                     \in operationVariables(operation)
                /\ hasOwnProperty(operation.variables,
                                  firstSelection.arguments[a].value.name) } }

\* C4: when a declared variable is bound to the `preview` argument of the
\* first selection, the parameter set has no `preview` key if the runtime
\* value of the variable is falsy, and has one if the value is true.
C4_PreviewKey ==
  Translated =>
    \A v \in previewVariables :
      hasOwnProperty(parseQueryVariables(operation), w_preview)
        <=> truthy(operation.variables[v])

\* C4, the case: post(preview: $preview) translated with preview = false
C4_PreviewFalse ==
  /\ Translated
  /\ \E v \in previewVariables : operation.variables[v] = JsBool(FALSE)

\* the calls made for the i-th upstream emission
CallsOf(i) == { k \in 1..Len(calls) : calls[k].inner = i }

\* the client line 78 is to choose: the preview client when a non-empty
\* previewAccessToken was given and the parameter set's preview is truthy
expectedClient ==
  IF /\ clientOptions.previewAccessToken = "token"
     /\ hasOwnProperty(parseQueryVariables(operation), w_preview)
     /\ truthy(parseQueryVariables(operation)[w_preview])
    THEN "previewClient" ELSE "client"

\* C5 as stated: for every upstream emission exactly one of the two clients
\* is called, the preview client when one is configured and the parameter
\* set's preview is truthy, the default client otherwise.
C5_ExactlyOneClientCalled ==
  mode = "request" =>
    \A i \in 1..emitted :
      /\ Cardinality(CallsOf(i)) = 1
      /\ \A k \in CallsOf(i) : calls[k].client = expectedClient

\* C5 as amended: for every upstream emission at most one client is called:
\* none when the translation throws, and otherwise exactly one, the preview
\* client when one is configured and the parameter set's preview is truthy,
\* the default client in every other case.
C5_ClientSelection ==
  mode = "request" =>
    \A i \in 1..emitted :
      /\ Cardinality(CallsOf(i)) = (IF translationThrows(operation) THEN 0 ELSE 1)
      /\ \A k \in CallsOf(i) : calls[k].client = expectedClient

\* C5, the case: a link that has a preview client has called it
C5_PreviewClientCalled ==
  /\ previewClient
  /\ \E k \in 1..Len(calls) : calls[k].client = "previewClient"

\* C6: with an `id` key in the parameter set the call is getEntry(id, P), P
\* being queryDefaults overridden by the parameter set without `id` and
\* `preview`; otherwise it is getEntries(P'), P' being queryDefaults
\* overridden by the parameter set without `preview`, overridden by
\* content_type.  post(id: $id) with {id: "abc123"} gives
\* getEntry("abc123", defaults); a `preview` key, and for getEntry an `id`
\* key, of the parameters sent can only come from queryDefaults.
C6_MethodSelection ==
  Translated =>
    LET qv == parseQueryVariables(operation)
        dropped == IF hasOwnProperty(qv, w_id) THEN {w_id, w_preview}
                   ELSE {w_preview, w_content_type}
        passed == (DOMAIN qv) \ dropped
    IN \A k \in 1..Len(calls) :
         /\ calls[k].method
              = (IF hasOwnProperty(qv, w_id) THEN "getEntry" ELSE "getEntries")
         /\ hasOwnProperty(qv, w_id) => calls[k].id = qv[w_id]
         /\ DOMAIN calls[k].params
              = passed \cup (DOMAIN queryDefaults)
                  \cup (IF hasOwnProperty(qv, w_id) THEN {} ELSE {w_content_type})
         /\ \A key \in passed : calls[k].params[key] = qv[key]
         /\ \A key \in (DOMAIN queryDefaults) \ passed :
              hasOwnProperty(qv, w_id) \/ key # w_content_type
                => calls[k].params[key] = queryDefaults[key]
         /\ ( /\ firstSelection.name = w_post
              /\ firstSelection.arguments = << Arg(w_id, VariableNode(w_id)) >>
              /\ operation.variables = Obj1(w_id, JsStr(w_abc123)) )
              => /\ calls[k].method = "getEntry"
                 /\ calls[k].id = JsStr(w_abc123)
                 /\ calls[k].params = queryDefaults

\* C6, the case: post(id: $id) with {id: "abc123"} has been sent as getEntry
\* by a link whose parameter set also held a preview key
C6_GetEntryCalled ==
  /\ Translated
  /\ hasOwnProperty(parseQueryVariables(operation), w_preview)
  /\ \E k \in 1..Len(calls) :
       calls[k].method = "getEntry" /\ calls[k].id = JsStr(w_abc123)

\* the root key without a trailing `Collection`
stripTrailingCollection(rootKey) ==
  IF endsWith(rootKey, w_Collection)
    THEN SubSeq(rootKey, 1, Len(rootKey) - Len(w_Collection))
    ELSE rootKey

\* C7: the content_type of every getEntries call is the root key with a
\* trailing `Collection` stripped and nothing else changed, whatever
\* content_type queryDefaults or the parameter set hold.
C7_ContentType ==
  Translated =>
    \A k \in 1..Len(calls) :
      calls[k].method = "getEntries" =>
        calls[k].params[w_content_type]
          = JsStr(stripTrailingCollection(getRootKey(operation).value))

\* C7, the case: a getEntries call for a root key that holds `Collection`
\* elsewhere than at its end
C7_CollectionInside ==
  /\ Translated
  /\ \E k \in 1..Len(calls) : calls[k].method = "getEntries"
  /\ getRootKey(operation).value = w_post \o w_Collection \o w_Items

\* getRootKey returns null for the operation
RootKeyIsNull ==
  ~getRootKey(operation).thrown /\ getRootKey(operation).isNull

\* C9: when getRootKey returns null the request ends in a failure sent to
\* the caller and no call is made on either client, whichever method the
\* parameter set selects.
C9_NullRootKeyFails ==
  (mode = "request" /\ emitted > 0 /\ RootKeyIsNull) =>
    /\ calls = <<>>
    /\ Sent("error") # {}

\* C9, the case: a null root key and a parameter set that selects getEntry
C9_NullRootKeyGetEntry ==
  /\ mode = "request" /\ emitted > 0 /\ RootKeyIsNull
  /\ ~parseQueryVariablesThrows(operation)
  /\ queryMethod(parseQueryVariables(operation)) = "getEntry"

\* ------------------------------------------------------------------------
\* Claims about the helpers, stated on the helper calls that have returned
\* ------------------------------------------------------------------------
\* the string without its last n characters
dropLast(str, n) == SubSeq(str, 1, Len(str) - n)

\* C8: getSearchKey resolves `_not_in` before `_not` and `_in`: b_not_in maps
\* to fields.b[nin], b_in to fields.b[in], b_not to fields.b[ne], b_exists
\* to fields.b[exists], and any other name to fields.<name>.
C8_SearchKeySuffixes ==
  (mode = "helper" /\ helperPc = "searchKey") =>
    LET key == helperIn.s
    IN helperOut.searchKey =
         (IF endsWith(key, w__not_in)
            THEN w_fieldsDot \o dropLast(key, Len(w__not_in)) \o w_brNin
          ELSE IF endsWith(key, w__in)
            THEN w_fieldsDot \o dropLast(key, Len(w__in)) \o w_brIn
          ELSE IF endsWith(key, w__not)
            THEN w_fieldsDot \o dropLast(key, Len(w__not)) \o w_brNe
          ELSE IF endsWith(key, w__exists)
            THEN w_fieldsDot \o dropLast(key, Len(w__exists)) \o w_brExists
          ELSE w_fieldsDot \o key)

\* C8, the case: getSearchKey has returned for title_not_in
C8_NotInKey ==
  /\ mode = "helper" /\ helperPc = "searchKey"
  /\ helperIn = JsStr(w_title \o w__not_in)

\* a field name: a name without `_` and without `.`
plainName(str) == \A i \in 1..Len(str) : str[i] \notin {"_", "."}

\* C10 as stated, its first part: for EVERY name f without a dot, f_DESC
\* gives -fields.f and f_ASC gives fields.f
C10_EveryFieldName ==
  (mode = "helper" /\ helperPc = "orderValue" /\ helperIn.t = "string") =>
    LET str == helperIn.s
    IN /\ ( /\ endsWith(str, w_us \o w_DESC)
            /\ ~includes(dropLast(str, 5), <<".">>) )
            => helperOut.orderValue
                 = JsStr(w_minus \o w_fieldsDot \o dropLast(str, 5))
       /\ ( /\ endsWith(str, w_us \o w_ASC)
            /\ ~includes(dropLast(str, 4), <<".">>) )
            => helperOut.orderValue = JsStr(w_fieldsDot \o dropLast(str, 4))

\* the operation postCollection(order: [publishedAt_DESC], limit: 2) with
\* no variables
isScenario1 ==
  /\ operation.variables = EmptyObj
  /\ operation.query.definitions =
       << Definition("OperationDefinition", "query", <<>>,
            << Field(w_post \o w_Collection,
                 << Arg(w_order, ListNode(<< ScalarNode("EnumValue",
                                               JsStr(orderEnum)) >>)),
                    Arg(w_limit, ScalarNode("IntValue", JsStr(w_2))) >>) >>) >>

\* C10 as amended: for every field name f without an underscore, f_DESC
\* gives -fields.f and f_ASC gives fields.f; a sys.-prefixed expression gets
\* no fields. prefix; sys.publishedAt_DESC gives -sys.updatedAt and
\* sys.firstPublishedAt gives sys.createdAt; an input that is no string is
\* returned unchanged; and postCollection(order: [publishedAt_DESC],
\* limit: 2) is sent as getEntries of queryDefaults overridden by
\* {order: "-fields.publishedAt", limit: "2", content_type: "post"}.
C10_OrderValue ==
  /\ (mode = "helper" /\ helperPc = "orderValue" /\ helperIn.t # "string")
       => helperOut.orderValue = helperIn
  /\ (mode = "helper" /\ helperPc = "orderValue" /\ helperIn.t = "string") =>
       LET str == helperIn.s
           out == helperOut.orderValue
       IN /\ out.t = "string"
          /\ (endsWith(str, w_us \o w_DESC) /\ plainName(dropLast(str, 5)))
               => out.s = w_minus \o w_fieldsDot \o dropLast(str, 5)
          /\ (endsWith(str, w_us \o w_ASC) /\ plainName(dropLast(str, 4)))
               => out.s = w_fieldsDot \o dropLast(str, 4)
          /\ startsWith(str, w_sysDot)
               => startsWith(out.s, w_sysDot)
                    \/ startsWith(out.s, w_minus \o w_sysDot)
          /\ str = w_sysDot \o w_publishedAt \o w_us \o w_DESC
               => out.s = w_minus \o w_sysUpdatedAt
          /\ str = w_sysFirstPublishedAt => out.s = w_sysCreatedAt
  /\ (Translated /\ isScenario1) =>
       \A k \in 1..Len(calls) :
         /\ calls[k].method = "getEntries"
         /\ calls[k].params
              = spread(queryDefaults,
                  spread(Obj2(w_order, JsStr(w_minus \o w_fieldsDot \o w_publishedAt),
                              w_limit, JsStr(w_2)),
                         Obj1(w_content_type, JsStr(w_post))))

\* C10, the case: getOrderValue has returned for publishedAt_DESC
C10_PublishedAtDesc ==
  /\ mode = "helper" /\ helperPc = "orderValue"
  /\ helperIn = JsStr(orderEnum)
  /\ helperOut.orderValue = JsStr(w_minus \o w_fieldsDot \o w_publishedAt)

\* ------------------------------------------------------------------------
\* Claims about the layers of parseQueryVariables
\* ------------------------------------------------------------------------
\* the arguments of the first selection that bind a declared variable which
\* has a runtime value to a field outside the reserved parameters
nonReservedBindings ==
  { a \in 1..Len(firstSelection.arguments) :
      /\ firstSelection.arguments[a].value.kind = "Variable"
      /\ firstSelection.arguments[a].name \notin contentfulReservedParameters
      /\ firstSelection.arguments[a].value.name \in operationVariables(operation)
      /\ hasOwnProperty(operation.variables,
                        firstSelection.arguments[a].value.name) }

\* C11: a declared variable bound as an argument to a field that is not a
\* reserved parameter leaves no key in the parameter set, neither under the
\* field name nor under the variable name.
C11_NonReservedDropped ==
  Translated =>
    \A a \in nonReservedBindings :
      /\ ~hasOwnProperty(parseQueryVariables(operation),
                         firstSelection.arguments[a].name)
      /\ ~hasOwnProperty(parseQueryVariables(operation),
                         firstSelection.arguments[a].value.name)

\* C11, the case: post(..., slug: $slug) translated with slug = 'x'
C11_SlugBound ==
  /\ Translated
  /\ \E a \in nonReservedBindings :
       /\ firstSelection.arguments[a].name = w_slug
       /\ operation.variables[firstSelection.arguments[a].value.name] = JsStr(w_x)

\* the runtime variables the operation does not declare
undeclaredVariables ==
  (DOMAIN operation.variables) \ operationVariables(operation)

\* C12: the parameter set has the keys of the three layers; a key of an
\* undeclared runtime variable has the variable's value, any other key of
\* the bound-variable layer has that layer's value, and the remaining keys
\* have the inline-argument layer's value.  A declared variable's name is a
\* key only when one of the first two layers has it.
C12_LayerPrecedence ==
  Translated =>
    LET result == parseQueryVariables(operation)
        layer1 == operationArguments(operation)
        layer2 == operationQueries(operation)
    IN /\ DOMAIN result
            = (DOMAIN layer1) \cup (DOMAIN layer2) \cup undeclaredVariables
       /\ \A key \in undeclaredVariables :
            result[key] = operation.variables[key]
       /\ \A key \in (DOMAIN layer2) \ undeclaredVariables :
            result[key] = layer2[key]
       /\ \A key \in (DOMAIN layer1) \ ((DOMAIN layer2) \cup undeclaredVariables) :
            result[key] = layer1[key]
       /\ \A key \in operationVariables(operation) \cap DOMAIN result :
            key \in (DOMAIN layer1) \cup (DOMAIN layer2)

\* C12, the case: an undeclared runtime variable collides with a key of the
\* inline-argument layer, and a declared variable has a runtime value
C12_Collision ==
  /\ Translated
  /\ \E key \in undeclaredVariables \cap DOMAIN operationArguments(operation) :
       operationArguments(operation)[key] # operation.variables[key]
  /\ operationVariables(operation) \cap DOMAIN operation.variables # {}

\* C12, the case: an undeclared runtime variable collides with a key of the
\* bound-variable layer
C12_BoundCollision ==
  /\ Translated
  /\ \E key \in undeclaredVariables \cap DOMAIN operationQueries(operation) :
       operationQueries(operation)[key] # operation.variables[key]

====
